---- MODULE Spec2Model ----
(***************************************************************************)
(* A model of geodiff.py: one run of main(), which optionally creates the  *)
(* output directory, calls geodiff() on two raster files and prints the    *)
(* report.  RasterLayer (yirgacheffe), gdal and os are collaborators of    *)
(* the program; they are modelled by their documented behaviour at the     *)
(* line of geodiff.py that calls them, and each call that can fail has a   *)
(* failing alternative.                                                    *)
(*                                                                         *)
(* Conventions.  Python None is the empty sequence and a present value v   *)
(* is <<v>>.  A path is the sequence of its components.  A pixel scale     *)
(* PixelScale(s, -s) is the positive integer s.  An area is in map units   *)
(* with top > bottom (north up).  A float is an exact fraction [n, d] in   *)
(* lowest terms.                                                           *)
(***************************************************************************)
EXTENDS Integers, Sequences, FiniteSets, TLC

\* ------------------------------------------------------------------------
\* Bounds of the model
\* ------------------------------------------------------------------------
MaxPixel == 1
MaxScale == 2

\* ------------------------------------------------------------------------
\* Python values
\* ------------------------------------------------------------------------
None == << >>
Some(v) == <<v>>
IsNone(o) == Len(o) = 0
Get(o) == o[1]

RECURSIVE GCD(_, _)
GCD(a, b) == IF b = 0 THEN a ELSE GCD(b, a % b)

Frac(n, d) == LET g == GCD(n, d) IN [n |-> n \div g, d |-> d \div g]

\* float(a) / b  and  q * m, on exact fractions
TrueDiv(a, b) == Frac(a, b)
FloatMul(q, m) == Frac(q.n * m, q.d)

\* ------------------------------------------------------------------------
\* class Result, class ReportEntry
\* ------------------------------------------------------------------------
SUCCESS == "SUCCESS"
WARNING == "WARNING"
FAIL == "FAIL"

ReportEntry(key, left_value, right_value, success, notes) ==
    [key |-> key, left_value |-> left_value, right_value |-> right_value,
     success |-> success, notes |-> notes]

\* ------------------------------------------------------------------------
\* gdal's GDALDataType codes, as geodiff.py names them
\* ------------------------------------------------------------------------
GDT_Unknown == 0
GDT_Byte == 1
GDT_UInt16 == 2
GDT_Int16 == 3
GDT_UInt32 == 4
GDT_Int32 == 5
GDT_Float32 == 6
GDT_Float64 == 7
GDT_CInt16 == 8
GDT_CInt32 == 9
GDT_CFloat32 == 10
GDT_CFloat64 == 11
GDT_UInt64 == 12
GDT_Int64 == 13
GDT_Int8 == 14
GDT_TypeCount == 15

gdal_datatype_to_str(gdt) ==
    IF GDT_Byte = gdt THEN "byte"
    ELSE IF GDT_Int8 = gdt THEN "int 8"
    ELSE IF GDT_Int16 = gdt THEN "int 16"
    ELSE IF GDT_Int32 = gdt THEN "int 32"
    ELSE IF GDT_Int64 = gdt THEN "int 64"
    ELSE IF GDT_UInt16 = gdt THEN "unsigned int 16"
    ELSE IF GDT_UInt32 = gdt THEN "unsigned int 32"
    ELSE IF GDT_Int64 = gdt THEN "unsigned int 64"
    ELSE IF GDT_Float32 = gdt THEN "float 32"
    ELSE IF GDT_Float64 = gdt THEN "float 64"
    ELSE IF GDT_CFloat32 = gdt THEN "complex float 32"
    ELSE IF GDT_CFloat64 = gdt THEN "complex float 64"
    ELSE IF GDT_CInt16 = gdt THEN "complex int 16"
    ELSE IF GDT_CInt32 = gdt THEN "complex int 32"
    ELSE IF GDT_TypeCount = gdt THEN "type count"
    ELSE IF GDT_Unknown = gdt THEN "gdal unknown"
    ELSE "actual unknown"

\* ------------------------------------------------------------------------
\* The inputs of a run
\* ------------------------------------------------------------------------
LeftPath == <<"a", "left.tif">>
RightPath == <<"b", "right.tif">>
SavePaths == {None, Some(<<"out">>)}

Scales == 1..MaxScale
Projections == {"EPSG:4326", "ESRI:54009"}
DataTypes == {GDT_Byte, GDT_Int64, GDT_UInt64}
Pixels == 0..MaxPixel

\* Raster extents on the pixel grid, [x0, x1) x [y0, y1): 2x1, the same
\* shifted by one and by two columns, 1x2, and 3x1.
GridRects ==
    { [x0 |-> 0, x1 |-> 2, y0 |-> 0, y1 |-> 1],
      [x0 |-> 1, x1 |-> 3, y0 |-> 0, y1 |-> 1],
      [x0 |-> 2, x1 |-> 4, y0 |-> 0, y1 |-> 1],
      [x0 |-> 0, x1 |-> 1, y0 |-> 0, y1 |-> 2],
      [x0 |-> 0, x1 |-> 3, y0 |-> 0, y1 |-> 1] }

Area(left, top, right, bottom) ==
    [left |-> left, top |-> top, right |-> right, bottom |-> bottom]

Window(xoff, yoff, xsize, ysize) ==
    [xoff |-> xoff, yoff |-> yoff, xsize |-> xsize, ysize |-> ysize]

\* What RasterLayer.layer_from_file finds in a raster file: the file's
\* georeferencing and storage type; the window is the whole raster.
Layer(s, proj, dt, g) ==
    [pixel_scale |-> s, projection |-> proj, datatype |-> dt,
     area |-> Area(g.x0 * s, g.y1 * s, g.x1 * s, g.y0 * s),
     underlying_area |-> Area(g.x0 * s, g.y1 * s, g.x1 * s, g.y0 * s),
     window |-> Window(0, 0, g.x1 - g.x0, g.y1 - g.y0)]

RasterFiles ==
    { Layer(s, p, dt, g) : s \in Scales, p \in Projections,
                           dt \in DataTypes, g \in GridRects }

NoLayer == None

\* ------------------------------------------------------------------------
\* RasterLayer, as geodiff() uses it
\* ------------------------------------------------------------------------
Max(a, b) == IF a >= b THEN a ELSE b
Min(a, b) == IF a <= b THEN a ELSE b
FloorDiv(a, b) == a \div b
CeilDiv(a, b) == (a + b - 1) \div b

Returned(v) == [raised |-> "", msg |-> "", value |-> Some(v)]
Raised(cls, msg) == [raised |-> cls, msg |-> msg, value |-> None]

\* RasterLayer.find_intersection([l, r]): a ValueError when the layers are
\* not at one pixel scale, a ValueError when the areas do not overlap, else
\* the common rectangle.
find_intersection(l, r) ==
    IF l.pixel_scale # r.pixel_scale
    THEN Raised("ValueError", "Not all layers are at the same pixel scale")
    ELSE LET i == Area(Max(l.area.left, r.area.left),
                       Min(l.area.top, r.area.top),
                       Min(l.area.right, r.area.right),
                       Max(l.area.bottom, r.area.bottom))
         IN  IF i.left >= i.right \/ i.bottom >= i.top
             THEN Raised("ValueError", "No intersection possible")
             ELSE Returned(i)

\* a variant that sizes the window and leaves it at the raster's origin
set_window_without_offset(layer, new_area) ==
    [layer EXCEPT
       !.window = Window(
           0, 0,
           CeilDiv(new_area.right - new_area.left, layer.pixel_scale),
           CeilDiv(new_area.top - new_area.bottom, layer.pixel_scale)),
       !.area = new_area]

\* layer.set_window_for_intersection(new_area): the window of the layer's
\* own pixels that covers new_area, which becomes the layer's area.
set_window_for_intersection(layer, new_area) ==
    [layer EXCEPT
       !.window = Window(
           FloorDiv(new_area.left - layer.underlying_area.left, layer.pixel_scale),
           FloorDiv(layer.underlying_area.top - new_area.top, layer.pixel_scale),
           CeilDiv(new_area.right - new_area.left, layer.pixel_scale),
           CeilDiv(new_area.top - new_area.bottom, layer.pixel_scale)),
       !.area = new_area]

\* {(x, y)}: the positions of a window, relative to the window
WindowPositions(w) == (0..(w.xsize - 1)) \X (0..(w.ysize - 1))

\* the pixels of the layer's file that its window reads
FilePositions(layer) ==
    { <<layer.window.xoff + p[1], layer.window.yoff + p[2]>> :
        p \in WindowPositions(layer.window) }

\* the layer's pixel at window position p, of the file pixels `data`
PixelAt(layer, data, p) ==
    data[<<layer.window.xoff + p[1], layer.window.yoff + p[2]>>]

\* RasterLayer.empty_raster_layer_like(layer, filename, GDT_Byte, nbits=1):
\* a zeroed raster with the layer's window size and area, in the file
\* `filename` when one is given and in memory otherwise.
empty_raster_layer_like(layer, filename, datatype) ==
    [filename |-> filename, datatype |-> datatype, area |-> layer.area,
     pixel_scale |-> layer.pixel_scale, projection |-> layer.projection,
     xsize |-> layer.window.xsize, ysize |-> layer.window.ysize,
     data |-> [p \in WindowPositions(layer.window) |-> 0]]

\* lambda left, right: left != right  (a numpy bool, stored as 0 or 1)
NotEqual(l, r) == IF l # r THEN 1 ELSE 0

\* left.numpy_apply(lambda ..., right): the lambda at each window position
numpy_apply(l, ldata, r, rdata) ==
    [p \in WindowPositions(l.window) |->
        NotEqual(PixelAt(l, ldata, p), PixelAt(r, rdata, p))]

\* the running total of save(..., and_sum=True): row by row, top to bottom
RECURSIVE RowSum(_, _, _)
RowSum(calc, y, x) ==
    IF x = 0 THEN 0 ELSE calc[<<x - 1, y>>] + RowSum(calc, y, x - 1)

RECURSIVE SumRows(_, _, _)
SumRows(calc, xsize, y) ==
    IF y = 0 THEN 0 ELSE SumRows(calc, xsize, y - 1) + RowSum(calc, y - 1, xsize)

\* ------------------------------------------------------------------------
\* os.path
\* ------------------------------------------------------------------------
\* os.path.split(path) == (head, tail)
path_split(path) ==
    IF Len(path) = 0 THEN <<path, "">>
    ELSE <<SubSeq(path, 1, Len(path) - 1), path[Len(path)]>>

\* os.path.join(a, name)
path_join(a, name) == Append(a, name)

\* ------------------------------------------------------------------------
\* State
\* ------------------------------------------------------------------------
VARIABLES
    pc,                 \* the statement main()/geodiff() is at
    save_raster_path,   \* args.save_raster_path
    dirs,               \* the directories the run has made
    disk,               \* the raster files the run has written
    handles,            \* the open datasets: "left", "right", "diff"
    left, right,        \* geodiff's layers
    report,             \* geodiff's report dict
    same_scale, same_projection,
    intersection,       \* geodiff's local of that name
    intersection_raise, \* what find_intersection raised ("" if it returned)
    diff_layer,
    left_pixels, right_pixels,  \* the file pixels the comparison read
    sum,
    result,             \* main's `report`: what geodiff returned
    stdout,             \* the lines printed
    printed,            \* calls of pretty_print_report
    raised              \* the exception that ended the run ("" if none)

vars == <<pc, save_raster_path, dirs, disk, handles, left, right, report,
          same_scale, same_projection, intersection, intersection_raise,
          diff_layer, left_pixels, right_pixels, sum, result, stdout,
          printed, raised>>

mainVars == <<result, stdout, printed>>
fsVars == <<dirs, disk>>
metaVars == <<same_scale, same_projection, intersection, intersection_raise>>
pixelVars == <<diff_layer, left_pixels, right_pixels, sum>>

Init ==
    /\ pc = "start"
    /\ save_raster_path \in SavePaths
    /\ dirs = {}
    /\ disk = {}
    /\ handles = {}
    /\ left = NoLayer
    /\ right = NoLayer
    /\ report = [left |-> None, right |-> None, report |-> << >>]
    /\ same_scale = FALSE
    /\ same_projection = FALSE
    /\ intersection = None
    /\ intersection_raise = ""
    /\ diff_layer = None
    /\ left_pixels = << >>
    /\ right_pixels = << >>
    /\ sum = 0
    /\ result = None
    /\ stdout = << >>
    /\ printed = 0
    /\ raised = ""

\* An exception leaves geodiff() and main(): nothing catches it, and the
\* frames it unwinds stay referenced by its traceback.
Raise(what) ==
    /\ pc' = "raised"
    /\ raised' = what

\* ------------------------------------------------------------------------
\* main(), lines 204-205
\* ------------------------------------------------------------------------
\* a variant that never makes the directory
MakedirsNever(path) == FALSE

MakedirsWanted(path) == ~IsNone(path)

MakeDirs ==
    /\ pc = "start"
    /\ pc' = "open_left"
    /\ dirs' = IF MakedirsWanted(save_raster_path)
               THEN dirs \cup {Get(save_raster_path)} ELSE dirs
    /\ UNCHANGED <<save_raster_path, disk, handles, left, right, report,
                   metaVars, pixelVars, mainVars, raised>>

MakeDirsFails ==
    /\ pc = "start"
    /\ MakedirsWanted(save_raster_path)
    /\ Raise("OSError: makedirs")
    /\ UNCHANGED <<save_raster_path, fsVars, handles, left, right, report,
                   metaVars, pixelVars, mainVars>>

\* ------------------------------------------------------------------------
\* geodiff(), lines 67-74
\* ------------------------------------------------------------------------
OpenLeft ==
    /\ pc = "open_left"
    /\ \E f \in RasterFiles : left' = Some(f)
    /\ report' = [left |-> Some(LeftPath), right |-> Some(RightPath),
                  report |-> << >>]
    /\ handles' = handles \cup {"left"}
    /\ pc' = "open_right"
    /\ UNCHANGED <<save_raster_path, fsVars, right, metaVars, pixelVars,
                   mainVars, raised>>

OpenLeftFails ==
    /\ pc = "open_left"
    /\ report' = [left |-> Some(LeftPath), right |-> Some(RightPath),
                  report |-> << >>]
    /\ Raise("RuntimeError: open left")
    /\ UNCHANGED <<save_raster_path, fsVars, handles, left, right, metaVars,
                   pixelVars, mainVars>>

OpenRight ==
    /\ pc = "open_right"
    /\ \E f \in RasterFiles : right' = Some(f)
    /\ handles' = handles \cup {"right"}
    /\ pc' = "metadata"
    /\ UNCHANGED <<save_raster_path, fsVars, left, report, metaVars,
                   pixelVars, mainVars, raised>>

OpenRightFails ==
    /\ pc = "open_right"
    /\ Raise("RuntimeError: open right")
    /\ UNCHANGED <<save_raster_path, fsVars, handles, left, right, report,
                   metaVars, pixelVars, mainVars>>

\* ------------------------------------------------------------------------
\* geodiff(), lines 76-122: the five metadata entries
\* ------------------------------------------------------------------------
PixelScaleEntry(l, r) ==
    LET same == l.pixel_scale = r.pixel_scale
    IN  ReportEntry("Pixel Scale", l.pixel_scale, Some(r.pixel_scale),
                    IF same THEN SUCCESS ELSE FAIL,
                    IF same THEN "Pass" ELSE "Pixel matching will not be attepted")

ProjectionEntry(l, r) ==
    LET same == l.projection = r.projection
    IN  ReportEntry("Projection", l.projection, Some(r.projection),
                    IF same THEN SUCCESS ELSE FAIL,
                    IF same THEN "Pass" ELSE "Pixel matching will not be attempted")

\* a variant that treats a datatype mismatch like a scale mismatch
DataTypeEntryFailing(l, r) ==
    LET same == l.datatype = r.datatype
    IN  ReportEntry("Data type", gdal_datatype_to_str(l.datatype),
                    Some(gdal_datatype_to_str(r.datatype)),
                    IF same THEN SUCCESS ELSE FAIL,
                    IF same THEN "Pass" ELSE "Pixel matching results will be suspect")

DataTypeEntry(l, r) ==
    LET same == l.datatype = r.datatype
    IN  ReportEntry("Data type", gdal_datatype_to_str(l.datatype),
                    Some(gdal_datatype_to_str(r.datatype)),
                    IF same THEN SUCCESS ELSE WARNING,
                    IF same THEN "Pass" ELSE "Pixel matching results will be suspect")

AreaEntry(l, r) ==
    LET same == l.area = r.area
    IN  ReportEntry("Area", l.area, Some(r.area),
                    IF same THEN SUCCESS ELSE WARNING,
                    IF same THEN "Pass" ELSE "Pixel matching only for overlapping area")

\* lines 112-115: try: ... except ValueError: intersection = None
ExceptValueError(outcome) ==
    IF outcome.raised = "ValueError" THEN None ELSE outcome.value

IntersectionEntry(l, r, inter) ==
    ReportEntry("Intersection", l.area, Some(r.area),
                IF ~IsNone(inter) THEN SUCCESS ELSE FAIL,
                IF ~IsNone(inter) THEN "Pass"
                ELSE "Pixel matching will not be attempted")

CompareMetadata ==
    /\ pc = "metadata"
    /\ LET l == Get(left)
           r == Get(right)
           outcome == find_intersection(l, r)
           inter == ExceptValueError(outcome)
       IN  /\ same_scale' = (l.pixel_scale = r.pixel_scale)
           /\ same_projection' = (l.projection = r.projection)
           /\ intersection' = inter
           /\ intersection_raise' = outcome.msg
           /\ report' = [report EXCEPT !.report =
                  @ \o << PixelScaleEntry(l, r), ProjectionEntry(l, r),
                          DataTypeEntry(l, r), AreaEntry(l, r),
                          IntersectionEntry(l, r, inter) >>]
    /\ pc' = "gate"
    /\ UNCHANGED <<save_raster_path, fsVars, handles, left, right, pixelVars,
                   mainVars, raised>>

\* find_intersection fails with anything that is not a ValueError: the
\* except clause does not apply and the error leaves geodiff() at line 113.
CompareMetadataFails ==
    /\ pc = "metadata"
    /\ LET l == Get(left)
           r == Get(right)
       IN  /\ same_scale' = (l.pixel_scale = r.pixel_scale)
           /\ same_projection' = (l.projection = r.projection)
           /\ report' = [report EXCEPT !.report =
                  @ \o << PixelScaleEntry(l, r), ProjectionEntry(l, r),
                          DataTypeEntry(l, r), AreaEntry(l, r) >>]
    /\ intersection_raise' = "unexpected"
    /\ Raise("RuntimeError: find_intersection")
    /\ UNCHANGED <<save_raster_path, fsVars, handles, left, right,
                   intersection, pixelVars, mainVars>>

\* ------------------------------------------------------------------------
\* geodiff(), lines 126-130: the gate, and the windows
\* ------------------------------------------------------------------------
\* a variant of the gate that forgets the projection
ReturnsEarlyIgnoringProjection(ss, sp, inter) == (~ss) \/ IsNone(inter)

ReturnsEarly(ss, sp, inter) == (~ss) \/ (~sp) \/ IsNone(inter)

\* `return report`: main() receives the report, and geodiff's locals go out
\* of scope.  Nothing closes the datasets explicitly; whether they are
\* finalised at once is up to the interpreter's garbage collection.
Return(rep) ==
    /\ result' = Some(rep)
    /\ handles' \in {{}, handles}
    /\ pc' = "returned"

ReturnEarly ==
    /\ pc = "gate"
    /\ ReturnsEarly(same_scale, same_projection, intersection)
    /\ Return(report)
    /\ UNCHANGED <<save_raster_path, fsVars, left, right, report, metaVars,
                   pixelVars, stdout, printed, raised>>

SetWindows ==
    /\ pc = "gate"
    /\ ~ReturnsEarly(same_scale, same_projection, intersection)
    /\ left' = Some(set_window_for_intersection(Get(left), Get(intersection)))
    /\ right' = Some(set_window_for_intersection(Get(right), Get(intersection)))
    /\ pc' = "create_diff"
    /\ UNCHANGED <<save_raster_path, fsVars, handles, report, metaVars,
                   pixelVars, mainVars, raised>>

\* ------------------------------------------------------------------------
\* geodiff(), lines 132-153: the pixel comparison
\* ------------------------------------------------------------------------
\* a variant that joins the whole left path, not its basename
diff_save_name_unsplit(save_path, left_file_path) ==
    IF ~IsNone(save_path)
    THEN Some(Get(save_path) \o left_file_path)
    ELSE None

diff_save_name(save_path, left_file_path) ==
    IF ~IsNone(save_path)
    THEN Some(path_join(Get(save_path), path_split(left_file_path)[2]))
    ELSE None

\* the file a layer made with a filename is stored in
FileOf(layer) ==
    [path |-> Get(layer.filename), xsize |-> layer.xsize,
     ysize |-> layer.ysize, data |-> layer.data]

Store(layer) ==
    IF IsNone(layer.filename) THEN disk
    ELSE {f \in disk : f.path # Get(layer.filename)} \cup {FileOf(layer)}

CreateDiffLayer ==
    /\ pc = "create_diff"
    /\ LET layer == empty_raster_layer_like(
                        Get(left), diff_save_name(save_raster_path, LeftPath),
                        GDT_Byte)
       IN  /\ diff_layer' = Some(layer)
           /\ disk' = Store(layer)
    /\ handles' = handles \cup {"diff"}
    /\ pc' = "compare"
    /\ UNCHANGED <<save_raster_path, dirs, left, right, report, metaVars,
                   left_pixels, right_pixels, sum, mainVars, raised>>

CreateDiffLayerFails ==
    /\ pc = "create_diff"
    /\ Raise("RuntimeError: create")
    /\ UNCHANGED <<save_raster_path, fsVars, handles, left, right, report,
                   metaVars, pixelVars, mainVars>>

\* lines 142-143: the pixels of both windows are read, compared and written
\* to diff_layer, and the comparison's values are summed on the way.
ComparePixels ==
    /\ pc = "compare"
    /\ LET l == Get(left)
           r == Get(right)
       IN  /\ l.window.xsize = r.window.xsize
           /\ l.window.ysize = r.window.ysize
           /\ \E ldata \in [FilePositions(l) -> Pixels],
                 rdata \in [FilePositions(r) -> Pixels] :
                 LET calc == numpy_apply(l, ldata, r, rdata)
                     layer == [Get(diff_layer) EXCEPT !.data = calc]
                 IN  /\ left_pixels' = ldata
                     /\ right_pixels' = rdata
                     /\ diff_layer' = Some(layer)
                     /\ disk' = Store(layer)
                     /\ sum' = SumRows(calc, l.window.xsize, l.window.ysize)
    /\ pc' = "pixel_entry"
    /\ UNCHANGED <<save_raster_path, dirs, handles, left, right, report,
                   metaVars, mainVars, raised>>

\* a pixel read or write fails
ComparePixelsFails ==
    /\ pc = "compare"
    /\ Raise("RuntimeError: read/write")
    /\ UNCHANGED <<save_raster_path, fsVars, handles, left, right, report,
                   metaVars, pixelVars, mainVars>>

\* a variant that divides the integers before scaling
PercentageTruncated(total, window) ==
    Frac((total \div (window.xsize * window.ysize)) * 100, 1)

Percentage(total, window) ==
    FloatMul(TrueDiv(total, window.xsize * window.ysize), 100)

PixelDiffEntry(total, window) ==
    ReportEntry("Pixel diff count", Percentage(total, window), None,
                IF total = 0 THEN SUCCESS ELSE FAIL,
                IF total = 0 THEN "Pass"
                ELSE "Different pixel values found (percentage)")

ReportPixels ==
    /\ pc = "pixel_entry"
    /\ report' = [report EXCEPT !.report =
                     Append(@, PixelDiffEntry(sum, Get(left).window))]
    /\ Return(report')
    /\ UNCHANGED <<save_raster_path, fsVars, left, right, metaVars,
                   pixelVars, stdout, printed, raised>>

\* ------------------------------------------------------------------------
\* pretty_print_report(), lines 155-176
\* ------------------------------------------------------------------------
Line(kind, key, value) == [kind |-> kind, key |-> key, value |-> value]

StatusText(success) ==
    IF SUCCESS = success THEN "SUCCESS"
    ELSE IF WARNING = success THEN "WARNING!"
    ELSE IF FAIL = success THEN "FAIL!!"
    ELSE "UNKNOWN RESULT"

\* a variant that prints the values of every entry, SUCCESS or not
EntryLinesWithValues(e) ==
    << Line("status", e.key, StatusText(e.success)) >>
    \o (IF SUCCESS # e.success
        THEN << Line("notes", e.key, e.notes) >> ELSE << >>)
    \o (IF ~IsNone(e.right_value)
        THEN << Line("Left", e.key, e.left_value),
                Line("Right", e.key, Get(e.right_value)) >>
        ELSE << Line("Difference", e.key, e.left_value) >>)

EntryLines(e) ==
    << Line("status", e.key, StatusText(e.success)) >>
    \o (IF SUCCESS # e.success
        THEN << Line("notes", e.key, e.notes) >>
             \o (IF ~IsNone(e.right_value)
                 THEN << Line("Left", e.key, e.left_value),
                         Line("Right", e.key, Get(e.right_value)) >>
                 ELSE << Line("Difference", e.key, e.left_value) >>)
        ELSE << >>)

RECURSIVE EntriesLines(_)
EntriesLines(entries) ==
    IF entries = << >> THEN << >>
    ELSE EntryLines(Head(entries)) \o EntriesLines(Tail(entries))

pretty_print_report(rep) ==
    << Line("left", "", Get(rep.left)), Line("right", "", Get(rep.right)) >>
    \o EntriesLines(rep.report)

\* main(), line 211
PrettyPrint ==
    /\ pc = "returned"
    /\ stdout' = stdout \o pretty_print_report(Get(result))
    /\ printed' = printed + 1
    /\ pc' = "done"
    /\ UNCHANGED <<save_raster_path, fsVars, handles, left, right, report,
                   metaVars, pixelVars, result, raised>>

Next ==
    \/ MakeDirs
    \/ MakeDirsFails
    \/ OpenLeft
    \/ OpenLeftFails
    \/ OpenRight
    \/ OpenRightFails
    \/ CompareMetadata
    \/ CompareMetadataFails
    \/ ReturnEarly
    \/ SetWindows
    \/ CreateDiffLayer
    \/ CreateDiffLayerFails
    \/ ComparePixels
    \/ ComparePixelsFails
    \/ ReportPixels
    \/ PrettyPrint

Spec == Init /\ [][Next]_vars

\* ------------------------------------------------------------------------
\* Vocabulary of the properties
\* ------------------------------------------------------------------------
Entries == report.report
Keys(entries) == [i \in 1..Len(entries) |-> entries[i].key]

MetadataKeys == <<"Pixel Scale", "Projection", "Data type", "Area", "Intersection">>
AllKeys == Append(MetadataKeys, "Pixel diff count")

GeodiffReturned == pc \in {"returned", "done"}
GeodiffFinished == pc \in {"returned", "done", "raised"}

\* the files' own metadata (set_window_for_intersection leaves these alone)
ScalesEqual == Get(left).pixel_scale = Get(right).pixel_scale
ProjectionsEqual == Get(left).projection = Get(right).projection
DataTypesEqual == Get(left).datatype = Get(right).datatype
AreasEqual == Get(left).underlying_area = Get(right).underlying_area

\* the whole raster of a layer, in pixels
FullWindow(layer) ==
    Window(0, 0,
           (layer.underlying_area.right - layer.underlying_area.left)
               \div layer.pixel_scale,
           (layer.underlying_area.top - layer.underlying_area.bottom)
               \div layer.pixel_scale)

\* the map cells (by their top-left corner) a layer's window reads
Cells(layer) ==
    { <<layer.underlying_area.left + fp[1] * layer.pixel_scale,
        layer.underlying_area.top - fp[2] * layer.pixel_scale>> :
        fp \in FilePositions(layer) }

\* the map cells of size s that tile area a
AreaCells(a, s) ==
    { c \in (a.left..(a.right - 1)) \X ((a.bottom + 1)..a.top) :
        (c[1] - a.left) % s = 0 /\ (a.top - c[2]) % s = 0 }

\* the window positions where the pixels read differ
Differing ==
    { p \in WindowPositions(Get(left).window) :
        PixelAt(Get(left), left_pixels, p) # PixelAt(Get(right), right_pixels, p) }

\* ------------------------------------------------------------------------
\* C1
\* ------------------------------------------------------------------------
\* C1: whenever geodiff returns normally, the report it returns holds the
\* entries keyed Pixel Scale, Projection, Data type, Area, Intersection in
\* that order, followed by a sixth entry keyed Pixel diff count exactly when
\* the pixel scales are equal, the projections are equal and the
\* intersection is not absent; there is no other entry.
C1_ReportShape ==
    GeodiffReturned =>
        /\ result = Some(report)
        /\ Keys(Entries) =
             IF ScalesEqual /\ ProjectionsEqual /\ ~IsNone(intersection)
             THEN AllKeys ELSE MetadataKeys
        /\ (~ScalesEqual => Len(Entries) = 5)
        /\ (ScalesEqual /\ ProjectionsEqual /\ ~IsNone(intersection)
              => Len(Entries) = 6)

C1_Witness ==
    /\ GeodiffReturned
    /\ Len(Entries) = 6
    /\ ~DataTypesEqual
    /\ ~AreasEqual

\* ------------------------------------------------------------------------
\* C2
\* ------------------------------------------------------------------------
\* C2: each metadata entry's outcome follows from its own comparison alone:
\* Pixel Scale and Projection are SUCCESS when equal and FAIL otherwise,
\* Data type and Area are SUCCESS when equal and WARNING otherwise,
\* Intersection is SUCCESS when the intersection is present and FAIL
\* otherwise; and when scale, projection, datatype and area are all equal,
\* all five are SUCCESS and the intersection is present.
C2_MetadataOutcomes ==
    /\ Len(Entries) >= 4 =>
        /\ Entries[1].success = IF ScalesEqual THEN SUCCESS ELSE FAIL
        /\ Entries[2].success = IF ProjectionsEqual THEN SUCCESS ELSE FAIL
        /\ Entries[3].success = IF DataTypesEqual THEN SUCCESS ELSE WARNING
        /\ Entries[4].success = IF AreasEqual THEN SUCCESS ELSE WARNING
    /\ Len(Entries) >= 5 =>
        /\ Entries[5].success = IF ~IsNone(intersection) THEN SUCCESS ELSE FAIL
        /\ (ScalesEqual /\ ProjectionsEqual /\ DataTypesEqual /\ AreasEqual
              => /\ \A i \in 1..5 : Entries[i].success = SUCCESS
                 /\ intersection = Some(Get(left).underlying_area))

C2_Witness ==
    /\ Len(Entries) >= 5
    /\ ScalesEqual /\ ProjectionsEqual /\ DataTypesEqual /\ AreasEqual
    /\ \A i \in 1..5 : Entries[i].success = SUCCESS

\* ------------------------------------------------------------------------
\* C3
\* ------------------------------------------------------------------------
\* C3: the Intersection entry is FAIL (and the intersection absent) only
\* when find_intersection reported that the areas do not overlap; every
\* other failure of find_intersection ends geodiff with that error.
C3_OnlyNoOverlapAbsorbed ==
    /\ (Len(Entries) >= 5 /\ Entries[5].success = FAIL)
          => intersection_raise = "No intersection possible"
    /\ intersection_raise \notin {"", "No intersection possible"}
          => pc = "raised"

\* ------------------------------------------------------------------------
\* C4
\* ------------------------------------------------------------------------
\* C4: when the comparison has run on a window of N pixels of which k
\* differ, the Pixel diff count entry's left_value is the fraction
\* k / N * 100, within [0, 100], its right_value is absent, and its outcome
\* is SUCCESS when k = 0 (with percentage 0) and FAIL when k >= 1.
C4_Percentage ==
    Len(Entries) = 6 =>
        LET e == Entries[6]
            N == Get(left).window.xsize * Get(left).window.ysize
            k == Cardinality(Differing)
        IN  /\ N >= 1
            /\ e.left_value.d >= 1
            /\ e.left_value.n * N = k * 100 * e.left_value.d
            /\ 0 <= e.left_value.n
            /\ e.left_value.n <= 100 * e.left_value.d
            /\ IsNone(e.right_value)
            /\ e.success = IF k = 0 THEN SUCCESS ELSE FAIL
            /\ (k = 0 => e.left_value = [n |-> 0, d |-> 1])

C4_Witness ==
    /\ Len(Entries) = 6
    /\ Cardinality(Differing) = 1
    /\ Get(left).window.xsize * Get(left).window.ysize = 3
    /\ Entries[6].left_value = [n |-> 100, d |-> 3]
    /\ Entries[6].success = FAIL

\* ------------------------------------------------------------------------
\* C5
\* ------------------------------------------------------------------------
WindowsSet ==
    pc \in {"create_diff", "compare", "pixel_entry"} \/ Len(Entries) = 6
       \/ (pc = "raised" /\ ~IsNone(intersection) /\ ScalesEqual
             /\ ProjectionsEqual)

Untouched(layer) ==
    /\ layer.window = FullWindow(layer)
    /\ layer.area = layer.underlying_area

\* C5: geodiff changes the two layers only by narrowing their windows, only
\* when it goes on to the pixel comparison, and both to the intersection:
\* on the early-return paths both windows are the whole rasters; otherwise
\* both windows read exactly the map cells of the intersection, the pixels
\* compared are those cells, and the percentage's denominator is their
\* number.
C5_Windows ==
    /\ (~IsNone(left) /\ ~WindowsSet) => Untouched(Get(left))
    /\ (~IsNone(right) /\ ~WindowsSet) => Untouched(Get(right))
    /\ (GeodiffReturned /\ Len(Entries) = 5) =>
          Untouched(Get(left)) /\ Untouched(Get(right))
    /\ Len(Entries) >= 4 =>
          /\ Entries[1].left_value = Get(left).pixel_scale
          /\ Entries[1].right_value = Some(Get(right).pixel_scale)
          /\ Entries[2].left_value = Get(left).projection
          /\ Entries[2].right_value = Some(Get(right).projection)
          /\ Entries[4].left_value = Get(left).underlying_area
          /\ Entries[4].right_value = Some(Get(right).underlying_area)
    /\ WindowsSet =>
          LET i == Get(intersection)
              s == Get(left).pixel_scale
          IN  /\ Get(left).area = i
              /\ Get(right).area = i
              /\ Cells(Get(left)) = AreaCells(i, s)
              /\ Cells(Get(right)) = AreaCells(i, s)
              /\ Get(left).window.xsize = Get(right).window.xsize
              /\ Get(left).window.ysize = Get(right).window.ysize
    /\ (pc = "pixel_entry" \/ Len(Entries) = 6) =>
          /\ DOMAIN left_pixels = FilePositions(Get(left))
          /\ DOMAIN right_pixels = FilePositions(Get(right))
    /\ Len(Entries) = 6 =>
          Entries[6].left_value.n
              * Cardinality(AreaCells(Get(intersection), Get(left).pixel_scale))
            = Cardinality(Differing) * 100 * Entries[6].left_value.d

C5_Witness ==
    /\ Len(Entries) = 6
    /\ ~AreasEqual
    /\ Get(left).window.xoff > 0
    /\ Get(right).window.xoff = 0
    /\ Get(left).window # FullWindow(Get(left))
    /\ Get(right).window # FullWindow(Get(right))

\* ------------------------------------------------------------------------
\* C6
\* ------------------------------------------------------------------------
\* C6: a difference raster is on disk only if an output directory was given
\* and geodiff went on to the pixel comparison; once geodiff has returned
\* there is one exactly in that case, and it is the file
\* <output dir>/<basename of the left path>, has the size of the
\* intersection window, and holds 1 where the left and right pixels differ
\* and 0 everywhere else.
C6_DiffRaster ==
    /\ IsNone(save_raster_path) => disk = {}
    /\ disk # {} => WindowsSet /\ pc # "create_diff"
    /\ GeodiffReturned =>
         /\ disk # {} <=> (~IsNone(save_raster_path) /\ Len(Entries) = 6)
         /\ \A f \in disk :
              LET i == Get(intersection)
                  s == Get(left).pixel_scale
              IN  /\ disk = {f}
                  /\ f.path = Append(Get(save_raster_path), "left.tif")
                  /\ f.xsize * s = i.right - i.left
                  /\ f.ysize * s = i.top - i.bottom
                  /\ DOMAIN f.data = (0..(f.xsize - 1)) \X (0..(f.ysize - 1))
                  /\ \A p \in DOMAIN f.data :
                       f.data[p] = IF p \in Differing THEN 1 ELSE 0

C6_Witness ==
    /\ pc = "done"
    /\ \E f \in disk :
         /\ f.xsize * f.ysize = 3
         /\ \E p \in DOMAIN f.data : f.data[p] = 1
         /\ \E p \in DOMAIN f.data : f.data[p] = 0

\* ------------------------------------------------------------------------
\* C7
\* ------------------------------------------------------------------------
\* the label each storage type is documented to have
DocumentedLabel(gdt) ==
    CASE gdt = GDT_Byte -> "byte"
      [] gdt = GDT_Int8 -> "int 8"
      [] gdt = GDT_Int16 -> "int 16"
      [] gdt = GDT_Int32 -> "int 32"
      [] gdt = GDT_Int64 -> "int 64"
      [] gdt = GDT_UInt16 -> "unsigned int 16"
      [] gdt = GDT_UInt32 -> "unsigned int 32"
      [] gdt = GDT_UInt64 -> "unsigned int 64"
      [] gdt = GDT_Float32 -> "float 32"
      [] gdt = GDT_Float64 -> "float 64"
      [] gdt = GDT_CFloat32 -> "complex float 32"
      [] gdt = GDT_CFloat64 -> "complex float 64"
      [] gdt = GDT_CInt16 -> "complex int 16"
      [] gdt = GDT_CInt32 -> "complex int 32"
      [] OTHER -> "unknown"

FallbackLabels == {"type count", "gdal unknown", "actual unknown"}

LabelAsDocumented(gdt, label) ==
    IF DocumentedLabel(gdt) = "unknown"
    THEN label \in FallbackLabels
    ELSE label = DocumentedLabel(gdt)

\* C7: the Data type entry shows, for each layer, the documented label of
\* its storage type (unsigned 64-bit as "unsigned int 64"), and a fallback
\* label for a code that is no storage type.
C7_Labels ==
    Len(Entries) >= 3 =>
        /\ LabelAsDocumented(Get(left).datatype, Entries[3].left_value)
        /\ LabelAsDocumented(Get(right).datatype, Get(Entries[3].right_value))

\* ------------------------------------------------------------------------
\* C8
\* ------------------------------------------------------------------------
FatalFailures ==
    {"OSError: makedirs", "RuntimeError: open left", "RuntimeError: open right",
     "RuntimeError: find_intersection", "RuntimeError: create",
     "RuntimeError: read/write"}

\* C8: the report is printed at most once, and only after geodiff has
\* returned it; a run that a fatal failure ends prints nothing and main
\* receives no report; the output directory is made before the first file
\* is opened, and a failure to make it ends the run before any comparison;
\* a run ends in an error only through one of the fatal failures, and a
\* run in which geodiff returns goes on to print the report it returned.
C8_PrintOnce ==
    /\ printed <= 1
    /\ (printed = 1 \/ stdout # << >>) =>
          /\ pc = "done"
          /\ raised = ""
          /\ result = Some(report)
          /\ Len(stdout) >= 2 + Len(Entries)
    /\ pc = "done" => printed = 1
    /\ (pc = "raised" \/ raised # "") =>
          /\ pc = "raised"
          /\ raised \in FatalFailures
          /\ stdout = << >>
          /\ printed = 0
          /\ IsNone(result)
    /\ (pc # "start" /\ raised # "OSError: makedirs"
           /\ ~IsNone(save_raster_path)) => Get(save_raster_path) \in dirs
    /\ raised = "OSError: makedirs" =>
          IsNone(left) /\ IsNone(right) /\ Entries = << >> /\ disk = {}
    /\ pc = "gate" => ENABLED ReturnEarly \/ ENABLED SetWindows
    /\ pc = "returned" => ENABLED PrettyPrint

C8_Witness ==
    /\ pc = "raised"
    /\ raised = "RuntimeError: read/write"
    /\ ~IsNone(save_raster_path)
    /\ Len(Entries) = 5
    /\ stdout = << >>

\* ------------------------------------------------------------------------
\* C9
\* ------------------------------------------------------------------------
LinesOf(key) ==
    LET ForKey(l) == l.key = key IN SelectSeq(stdout, ForKey)

\* the lines printed for the entries, entry by entry in report order
RECURSIVE GroupedLines(_)
GroupedLines(a) ==
    IF a > Len(Entries) THEN << >>
    ELSE LinesOf(Entries[a].key) \o GroupedLines(a + 1)

\* what the claim has in common with the code: the two paths first, then
\* the entries' lines in report order, each entry starting with its status
\* line, notes only for an entry that is not SUCCESS, and no Difference
\* line for a metadata entry
PrintedInOrder ==
    /\ stdout = << Line("left", "", LeftPath), Line("right", "", RightPath) >>
                \o GroupedLines(1)
    /\ \A a \in 1..Len(Entries) :
          LET e == Entries[a]
              lines == LinesOf(e.key)
          IN  /\ Len(lines) >= 1
              /\ lines[1] = Line("status", e.key,
                                 CASE e.success = SUCCESS -> "SUCCESS"
                                   [] e.success = WARNING -> "WARNING!"
                                   [] e.success = FAIL -> "FAIL!!")
              /\ \A n \in 2..Len(lines) :
                    /\ lines[n].kind # "status"
                    /\ lines[n].kind = "notes" => e.success # SUCCESS
                    /\ lines[n].kind = "Difference" => e.key = "Pixel diff count"

\* C9 as stated: every entry whose right_value is present is rendered as a
\* Left/Right pair and every entry whose right_value is absent as a single
\* Difference line, whatever its outcome.
C9_AsStated ==
    pc = "done" =>
        /\ PrintedInOrder
        /\ \A a \in 1..Len(Entries) :
              LET e == Entries[a]
                  values == SelectSeq(LinesOf(e.key),
                                LAMBDA l : l.kind \in {"Left", "Right", "Difference"})
              IN  values = IF ~IsNone(e.right_value)
                           THEN << Line("Left", e.key, e.left_value),
                                   Line("Right", e.key, Get(e.right_value)) >>
                           ELSE << Line("Difference", e.key, e.left_value) >>

\* C9, amended: the paths are printed first, then for each entry in report
\* order its status line; an entry that is SUCCESS prints nothing else; an
\* entry that is not SUCCESS prints its notes and then its Left/Right pair
\* when its right_value is present, or a single Difference line carrying
\* left_value when it is absent.  No metadata entry is rendered as
\* Difference.
C9_Rendering ==
    pc = "done" =>
        /\ PrintedInOrder
        /\ \A a \in 1..Len(Entries) :
              LET e == Entries[a]
                  lines == LinesOf(e.key)
              IN  Tail(lines) =
                    IF e.success = SUCCESS THEN << >>
                    ELSE IF ~IsNone(e.right_value)
                    THEN << Line("notes", e.key, e.notes),
                            Line("Left", e.key, e.left_value),
                            Line("Right", e.key, Get(e.right_value)) >>
                    ELSE << Line("notes", e.key, e.notes),
                            Line("Difference", e.key, e.left_value) >>

C9_Witness ==
    /\ pc = "done"
    /\ Len(Entries) = 6
    /\ Entries[1].success = SUCCESS
    /\ Entries[3].success = WARNING
    /\ Entries[6].success = FAIL
    /\ \E n \in 1..Len(stdout) : stdout[n].kind = "Difference"
    /\ \E n \in 1..Len(stdout) : stdout[n].kind = "Right"

\* ------------------------------------------------------------------------
\* C10
\* ------------------------------------------------------------------------
\* C10: once geodiff has finished, by its normal return, by its early
\* return or by an error, none of the datasets it opened is still open.
C10_HandlesReleased ==
    GeodiffFinished => handles = {}

====
